---- MODULE Spec2Model ----
(***************************************************************************)
(* Nested sampling main loop (Scripts/nest.py, Nested_Sampler.fit) and the *)
(* adaptive Metropolis chain that replaces the worst point                 *)
(* (Scripts/nest.py and Scripts/metropolis.py, Metropolis_sampler).        *)
(*                                                                         *)
(* Arithmetic.  Python floats are modelled in fixed point.  Log-domain     *)
(* quantities (logL, logWt, log_width, log_evidence, Information, stop)    *)
(* are integers counting 1/LScale, with exp and log tabulated to that      *)
(* precision.  Coordinates and step sizes count 1/PosScale.  The           *)
(* Metropolis step size, which the code only multiplies and divides by     *)
(* exp(1/h), h <= 20, is held twice: by its logarithm counted in           *)
(* 1/StepScale, StepScale the least common multiple of 1..20, so that      *)
(* every adaptation is exact (step stands for                              *)
(* floor(StepScale * log(self.step))), and by the per-dimension step       *)
(* sizes stepX, stepY, stepA, stepR computed from it, which the proposals  *)
(* are drawn with.                                                         *)
(*                                                                         *)
(* Randomness.  numpy.random.uniform(0, 1) hands sample() the values of    *)
(* stream, one after the other and over again from the start when the      *)
(* stream is used up; a value n of the stream stands for the draw          *)
(* n / UScale.  The stream is an input of the run, chosen at construction. *)
(* The draws of the survivor index are chosen freely at every draw.        *)
(***************************************************************************)
EXTENDS Integers, Sequences, FiniteSets, TLC

VARIABLES
    no_active_samples,    \* self.no_active_samples
    maximum_iterations,   \* self.maximum_iterations
    sample,               \* self.sample, the strategy string
    active_samples,       \* self.active_samples, a 0-based list of Source
    log_evidence,         \* self.log_evidence
    posterior_inferences, \* self.posterior_inferences
    log_width,            \* self.log_width
    Information,          \* self.Information
    no_likelihood,        \* self.no_likelihood
    LogL,                 \* fit(): cached list of the members' logL
    iteration,            \* fit(): loop variable (0 stands for None)
    stop,                 \* fit(): stopping estimate, computed and never read
    smallest,             \* fit(): index of the worst point
    likelihood_constraint,\* fit(): logL of the discarded point
    survivor,             \* fit(): index of the seed
    updated,              \* fit(): point returned by the strategy
    number,               \* fit(): call count returned by the strategy
    result,               \* value returned by fit()
    pc,                   \* control position
    source,               \* Metropolis_sampler.source
    LC,                   \* Metropolis_sampler.LC
    step,                 \* Metropolis_sampler.step, as
                          \* floor(StepScale * log(self.step))
    self_number,          \* Metropolis_sampler.number
    metro,                \* sample(): running chain state
    start,                \* sample(): copy of the seed
    new,                  \* sample(): the candidate
    count,                \* sample(): completed steps
    hit,                  \* sample(): accepted candidates
    miss,                 \* sample(): rejected candidates
    stepX,                \* sample(): step size in X
    stepY,                \* sample(): step size in Y
    stepA,                \* sample(): step size in A
    stepR,                \* sample(): step size in R
    bord,                 \* sample(): 1 while a candidate has to be drawn
    stream,               \* the values numpy.random.uniform hands to sample()
    rng,                  \* how many values of the stream are used up
    Clust_no,             \* Clustered_Sampler.no of the current attempt
    attempts              \* clustered_sampling(): attempts made in this call

vars == <<no_active_samples, maximum_iterations, sample, active_samples,
          log_evidence, posterior_inferences, log_width, Information,
          no_likelihood, LogL, iteration, stop, smallest,
          likelihood_constraint, survivor, updated, number, result, pc,
          source, LC, step, self_number, metro, start, new, count, hit, miss,
          stepX, stepY, stepA, stepR, bord, stream, rng, Clust_no, attempts>>

fitVars == <<no_active_samples, maximum_iterations, sample, active_samples,
             log_evidence, posterior_inferences, log_width, Information,
             no_likelihood, LogL, iteration, stop, smallest,
             likelihood_constraint, survivor, result>>

metroVars == <<source, LC, step, self_number, metro, start, new, count, hit,
               miss, stepX, stepY, stepA, stepR, bord>>

drawVars == <<stream, rng>>

clustVars == <<Clust_no, attempts>>

-----------------------------------------------------------------------------
(* Bounds of the model *)

\* largest ensemble size tried
MaxN == 2
\* largest max_iter tried
MaxIter == 3
\* most attempts of the clustered sampler followed within one call
MaxAttempts == 2
\* most evaluations one attempt of the clustered sampler adds to the count
MaxEvaluations == 2
\* longest stream of draws tried
MaxPeriod == 5

(* Program constants *)

\* nest.py:89, the "minus infinity" the evidence starts from (-1e300)
Sentinel == -1000000
\* metropolis.py:69 / nest.py:235, steps of one Metropolis call
NSteps == 20

\* log-domain fixed point: units per 1.0; a multiple of every N up to 4
LScale == 2 * 2 * 3
\* step-size fixed point: units per 1.0 of log(step), lcm(1, ..., 20), in
\* which 1.0 / hit and 1.0 / miss (lines 92-93) are whole for every count
StepScale == 16 * 9 * 5 * 7 * 11 * 13 * 17 * 19
\* metropolis.py:38 / nest.py:204, self.step = 8.0:
\* floor(StepScale * log(8.0))
InitialStep == 484078519
\* coordinate fixed point: units per 1.0 of X, Y, A, R and of a step size
PosScale == 1000000
\* the draws of uniform(0, 1) tried: 0, 1 / UScale, ..., (UScale - 1) / UScale
UScale == 4

Strategies == {"metropolis", "clustered_ellipsoidal", "uniform"}

-----------------------------------------------------------------------------
(* The sources module: prior box, Source records, likelihood *)

\* the bounds of the spec's scenarios: X, Y in [0, 200], A in [1, 14],
\* R in [2, 9]
getPrior_X == <<0, 200 * PosScale>>
getPrior_Y == <<0, 200 * PosScale>>
getPrior_A == <<1 * PosScale, 14 * PosScale>>
getPrior_R == <<2 * PosScale, 9 * PosScale>>

x_l == getPrior_X[1]
x_u == getPrior_X[2]
y_l == getPrior_Y[1]
y_u == getPrior_Y[2]
a_l == getPrior_A[1]
a_u == getPrior_A[2]
r_l == getPrior_R[1]
r_u == getPrior_R[2]

\* Source(): a fresh record, nothing set yet
Source == [X |-> 0, Y |-> 0, A |-> 0, R |-> 0, logL |-> 0, logWt |-> 0]

Sq(n) == n * n

Dist(a, b) == IF a >= b THEN a - b ELSE b - a

\* cells the likelihood divides the width of the box into, in each dimension
Cells == 50

\* the centre of the bump: the middle of the box in Y, A and R, on its upper
\* edge in X
Centre == [X |-> x_u, Y |-> (y_l + y_u) \div 2,
           A |-> (a_l + a_u) \div 2, R |-> (r_l + r_u) \div 2]

\* the distance of v from the centre c in cells of the box [lower, upper],
\* to the nearest cell
Cell(v, c, lower, upper) ==
    LET w == (upper - lower) \div Cells
    IN  (Dist(c, v) + w \div 2) \div w

\* log_likelihood(source): a single Gaussian bump, narrower than the box in
\* every dimension and narrower from X to R; with dX, dY, dA, dR the distance
\* from the centre in cells, -(dX^2 + 2 dY^2 + 4 dA^2 + 8 dR^2) / 2
log_likelihood(s) ==
    -((LScale \div 2) * (Sq(Cell(s.X, Centre.X, x_l, x_u))
                           + 2 * Sq(Cell(s.Y, Centre.Y, y_l, y_u))
                           + 4 * Sq(Cell(s.A, Centre.A, a_l, a_u))
                           + 8 * Sq(Cell(s.R, Centre.R, r_l, r_u))))

\* a point with its likelihood evaluated
Evaluated(x, y, a, r) ==
    LET s == [Source EXCEPT !.X = x, !.Y = y, !.A = a, !.R = r]
    IN  [s EXCEPT !.logL = log_likelihood(s)]

InBounds(s) ==
    /\ s.X >= x_l /\ s.X <= x_u
    /\ s.Y >= y_l /\ s.Y <= y_u
    /\ s.A >= a_l /\ s.A <= a_u
    /\ s.R >= r_l /\ s.R <= r_u

\* the width of a cell in X
CellX == (x_u - x_l) \div Cells

\* the most likely point of the box
Peak == Evaluated(Centre.X, Centre.Y, Centre.A, Centre.R)
\* the point half a cell below it in X, on the inner edge of the cell next
\* to the peak's
NextToPeak == Evaluated(Centre.X - CellX \div 2, Centre.Y, Centre.A, Centre.R)
\* the point a cell further down, on the inner edge of the cell after that
TwoFromPeak ==
    Evaluated(Centre.X - CellX \div 2 - CellX, Centre.Y, Centre.A, Centre.R)

\* a point beyond the upper bound of X, as likely as the point next to the
\* peak
Beyond == Evaluated(Centre.X + CellX \div 2, Centre.Y, Centre.A, Centre.R)

\* the points initial ensembles are drawn from
SeedPoints == {TwoFromPeak, NextToPeak, Peak}

\* the streams of draws a run is given
Streams == UNION {[1..p -> 0..(UScale - 1)] : p \in 1..MaxPeriod}

-----------------------------------------------------------------------------
(* math.exp, math.log, numpy.logaddexp, numpy.argmin, numpy.argmax *)

\* round(LScale * log(1 + exp(-d / LScale))) for d = 0, 1, 2, ...
Log1pExpTab == <<8, 8, 7, 7, 6, 6, 6, 5, 5, 5, 4, 4, 4, 3, 3, 3, 3, 3, 2, 2,
                 2, 2, 2, 2, 2, 1, 1, 1, 1, 1, 1, 1, 1, 1, 1, 1, 1, 1>>

Log1pExp(d) == IF d < Len(Log1pExpTab) THEN Log1pExpTab[d + 1] ELSE 0

\* numpy.logaddexp(a, b) = log(exp(a) + exp(b))
logaddexp(a, b) ==
    IF a >= b THEN a + Log1pExp(a - b) ELSE b + Log1pExp(b - a)

\* round(LScale * exp(-d / LScale)) for d = 0, 1, 2, ...
ExpNegTab == <<12, 11, 10, 9, 9, 8, 7, 7, 6, 6, 5, 5, 4, 4, 4, 3, 3, 3, 3, 2,
               2, 2, 2, 2, 2, 1, 1, 1, 1, 1, 1, 1, 1, 1, 1, 1, 1, 1, 1>>

\* exp(-d), d >= 0
ExpNeg(d) == IF d < Len(ExpNegTab) THEN ExpNegTab[d + 1] ELSE 0

\* StepScale * (1.0 / h) for h = 1 .. NSteps: the logarithm of exp(1.0 / h),
\* exactly
InvTab == [h \in 1..NSteps |-> StepScale \div h]

\* round(LScale * log(1 - exp(-1 / n))) for n = 1 .. 4
LogWidthTab == <<-6, -11, -15, -18>>

\* log(1.0 - exp(-1.0 / n))
InitialWidth(n) == LogWidthTab[n]

\* numpy.argmin: the first index holding the minimum
argmin(L) ==
    CHOOSE i \in DOMAIN L :
        /\ \A j \in DOMAIN L : L[i] <= L[j]
        /\ \A j \in DOMAIN L : j < i => L[j] > L[i]

\* numpy.argmax: the first index holding the maximum
argmax(L) ==
    CHOOSE i \in DOMAIN L :
        /\ \A j \in DOMAIN L : L[i] >= L[j]
        /\ \A j \in DOMAIN L : j < i => L[j] < L[i]

\* 2^15 and 2^16, the halves a product is computed in
Half15 == 32768
Half16 == 65536

\* round(v * f / 2^30) for a value v < 2^31 and a factor f < 2^30, computed
\* in pieces so that no intermediate value leaves 32 bits
MulFix(v, f) ==
    LET vh == v \div Half16
        vl == v % Half16
        fh == f \div Half15
        fl == f % Half15
        t1 == 2 * (vh * fl)
        t2 == (vl * fh) + (Half15 \div 2) + ((vl * fl) \div Half15)
    IN  2 * (vh * fh) + (t1 \div Half15) + (t2 \div Half15)
          + ((t1 % Half15) + (t2 % Half15)) \div Half15

\* floor(a * b / c) for 0 <= a, c > 0 and a small b of either sign, without
\* forming a * b
MulDiv(a, b, c) == (a \div c) * b + ((a % c) * b) \div c

\* round(2^30 * exp(-2^j / StepScale)) for j = 0, 1, ..., 28
ExpDownTab == <<1073741819, 1073741815, 1073741806, 1073741787, 1073741750,
                1073741676, 1073741529, 1073741234, 1073740643, 1073739462,
                1073737101, 1073732378, 1073722932, 1073704040, 1073666256,
                1073590694, 1073439586, 1073137432, 1072533381, 1071326298,
                1068916206, 1064112275, 1054569086, 1035738697, 999080620,
                929610884, 804826986, 603260917, 338930388>>

\* the largest j of ExpDownTab
TopBit == Len(ExpDownTab) - 1

RECURSIVE ExpDown(_, _, _)
\* v * exp(-(n * 2^j) / StepScale): one factor of ExpDownTab for every bit
\* of n, the lowest first, and the last factor as often as is left of n
ExpDown(v, n, j) ==
    IF n = 0 THEN v
    ELSE IF j = TopBit THEN ExpDown(MulFix(v, ExpDownTab[j + 1]), n - 1, j)
    ELSE ExpDown(IF n % 2 = 1 THEN MulFix(v, ExpDownTab[j + 1]) ELSE v,
                 n \div 2, j + 1)

\* the most the logarithm of the step size can gain in NSteps steps, in
\* 1/StepScale: two hits, then miss and hit in turn, which adds
\* 1 + 2 * (1/2 + ... + 1/10) + 1/11
LogStepSpan == 1152054436
\* round(PosScale * 8.0 * exp(LogStepSpan / StepScale))
StepCeiling == 1128096683
\* sub-units of 1/PosScale a shrinking step size is computed in
Fine == 128

\* self.step, in 1/PosScale, from its logarithm st: 8.0 * exp of the
\* difference to log(8.0), scaled down from the largest step size when the
\* difference is positive and from 8.0 otherwise
StepSize(st) ==
    LET e == st - InitialStep
    IN  IF e > 0 THEN ExpDown(StepCeiling, LogStepSpan - e, 0)
        ELSE (ExpDown(8 * PosScale * Fine, -e, 0) + Fine \div 2) \div Fine

-----------------------------------------------------------------------------
(* Nested_Sampler *)

\* None, for the fields and locals the code leaves unset
None == Source.logWt

\* the ensembles handed to the constructor: the least likely seed point in
\* slot 0, any seed point in every other slot
InitialEnsembles(n) ==
    {e \in [0..(n - 1) -> SeedPoints] :
        \A p \in SeedPoints : e[0].logL <= p.logL}

\* Nested_Sampler.__init__; max_iter is 1, under which the loop body never
\* runs, or the largest value tried.  The stream of draws matters to the
\* Metropolis strategy only.
Init ==
    /\ no_active_samples \in 1..MaxN
    /\ maximum_iterations \in {1, MaxIter}
    /\ sample \in Strategies
    /\ active_samples \in InitialEnsembles(no_active_samples)
    /\ log_evidence = None
    /\ posterior_inferences = <<>>
    /\ log_width = None
    /\ Information = None
    /\ no_likelihood = no_active_samples
    /\ LogL = <<>>
    /\ iteration = None
    /\ stop = None
    /\ smallest = None
    /\ likelihood_constraint = None
    /\ survivor = None
    /\ updated = Source
    /\ number = None
    /\ result = [returned |-> FALSE]
    /\ pc = "fit"
    /\ source = Source
    /\ LC = None
    /\ step = None
    /\ self_number = None
    /\ metro = Source
    /\ start = Source
    /\ new = Source
    /\ count = 0
    /\ hit = 0
    /\ miss = 0
    /\ stepX = None
    /\ stepY = None
    /\ stepA = None
    /\ stepR = None
    /\ bord = None
    /\ stream \in IF sample = "metropolis" THEN Streams ELSE {<<0>>}
    /\ rng = 0
    /\ Clust_no = None
    /\ attempts = 0

\* fit(), lines 88-95: initialise evidence, prior mass and the logL cache
FitBegin ==
    /\ pc = "fit"
    /\ log_evidence' = Sentinel
    /\ log_width' = InitialWidth(no_active_samples)
    /\ Information' = 0
    /\ LogL' = [i \in DOMAIN active_samples |-> active_samples[i].logL]
    /\ iteration' = None
    /\ stop' = None
    /\ pc' = "loop"
    /\ UNCHANGED <<no_active_samples, maximum_iterations, sample,
                   active_samples, posterior_inferences, no_likelihood,
                   smallest, likelihood_constraint, survivor, updated, number,
                   result>>
    /\ UNCHANGED metroVars
    /\ UNCHANGED drawVars
    /\ UNCHANGED clustVars

\* for iteration in range(1, self.maximum_iterations): another pass is due
LoopContinues(it, maxit) == it + 1 < maxit

\* AssignWeight with the prior-mass width left out of the weight
AssignWeight_NoWidth(width, logL) == logL

\* line 102: logWt of the worst point
AssignWeight(width, logL) == width + logL

\* temp_evidence keeping the larger term instead of adding the two
temp_evidence_Max(evidence, logWt) ==
    IF evidence >= logWt THEN evidence ELSE logWt

\* line 111: the updated evidence
temp_evidence(evidence, logWt) == logaddexp(evidence, logWt)

\* lines 114-115: the information recurrence
NewInformation(info, evidence, temp, logWt, logL) ==
    (ExpNeg(temp - logWt) * logL) \div LScale
      + (ExpNeg(temp - evidence) * (info + evidence)) \div LScale
      - temp

\* ShrinkWidth with the integer quotient 1 / n in place of 1.0 / n
ShrinkWidth_IntegerDivision(width, n) == width - LScale * (1 \div n)

\* line 154: self.log_width -= 1.0 / self.no_active_samples
ShrinkWidth(width, n) == width - (LScale \div n)

\* ReplaceSlot that finds the member to overwrite by its logL, not its index
ReplaceSlot_ByLogL(samples, i, point) ==
    [j \in DOMAIN samples |->
        IF samples[j].logL = samples[i].logL THEN point ELSE samples[j]]

\* lines 142 / 149: overwrite the fields of one ensemble member
ReplaceSlot(samples, i, point) == [samples EXCEPT ![i] = point]

\* UpdateCache that leaves the cached value as it was
UpdateCache_Stale(cache, i, logL) == cache

\* lines 143 / 150: LogL[smallest] = self.active_samples[smallest].logL
UpdateCache(cache, i, logL) == [cache EXCEPT ![i] = logL]

\* fit(), lines 97-132: find the worst point, weigh it, add it to the
\* evidence and to the posterior trace, set the constraint
Discard ==
    /\ pc = "loop"
    /\ LoopContinues(iteration, maximum_iterations)
    /\ LET s      == argmin(LogL)
           worst  == [active_samples[s] EXCEPT
                         !.logWt = AssignWeight(log_width, active_samples[s].logL)]
           weighed == [active_samples EXCEPT ![s] = worst]
           largest == argmax(LogL)
           temp   == temp_evidence(log_evidence, worst.logWt)
       IN  /\ iteration' = iteration + 1
           /\ smallest' = s
           /\ active_samples' = weighed
           /\ stop' = weighed[largest].logL + log_width - log_evidence
           /\ Information' = NewInformation(Information, log_evidence, temp,
                                            worst.logWt, worst.logL)
           /\ log_evidence' = temp
           /\ posterior_inferences' = Append(posterior_inferences, worst)
           /\ likelihood_constraint' = worst.logL
           /\ survivor' = s
    /\ pc' = "survivor"
    /\ UNCHANGED <<no_active_samples, maximum_iterations, sample, log_width,
                   no_likelihood, LogL, updated, number, result>>
    /\ UNCHANGED metroVars
    /\ UNCHANGED drawVars
    /\ UNCHANGED clustVars

\* fit(), lines 134-137: one pass of the rejection loop; u is
\* int(N * uniform(0,1)) % N
PickSurvivor ==
    /\ pc = "survivor"
    /\ \E u \in 0..(no_active_samples - 1) :
          /\ survivor' = u
          /\ pc' = IF u # smallest THEN "sample" ELSE "survivor"
    /\ UNCHANGED <<no_active_samples, maximum_iterations, sample,
                   active_samples, log_evidence, posterior_inferences,
                   log_width, Information, no_likelihood, LogL, iteration,
                   stop, smallest, likelihood_constraint, updated, number,
                   result>>
    /\ UNCHANGED metroVars
    /\ UNCHANGED drawVars
    /\ UNCHANGED clustVars

-----------------------------------------------------------------------------
(* Metropolis_sampler *)

\* UsesMetropolis as an else-branch: every string but "clustered_ellipsoidal"
\* selects the Metropolis sampler.
UsesMetropolis_Default(s) == s # "clustered_ellipsoidal"

\* line 139: the test that selects the Metropolis branch
UsesMetropolis(s) == s = "metropolis"

\* fit() line 141, metropolis_sampling() line 175, __init__ lines 200-205
MetropolisConstruct ==
    /\ pc = "sample"
    /\ UsesMetropolis(sample)
    /\ source' = active_samples[survivor]
    /\ LC' = likelihood_constraint
    /\ step' = InitialStep
    /\ self_number' = no_likelihood
    /\ pc' = "constructed"
    /\ UNCHANGED <<metro, start, new, count, hit, miss, stepX, stepY, stepA,
                   stepR, bord>>
    /\ UNCHANGED fitVars
    /\ UNCHANGED <<updated, number>>
    /\ UNCHANGED drawVars
    /\ UNCHANGED clustVars

\* lines 60, 63-65 and 95, 98-100: stepnormalize * (upper - lower), with
\* stepnormalize = self.step / x_u; the bounds are whole numbers
StepIn(size, lower, upper) ==
    MulDiv(size, (upper - lower) \div PosScale, x_u \div PosScale)

\* sample(), lines 45-67: copy the seed, reset the counters, derive the
\* per-dimension steps
SampleBegin ==
    /\ pc = "constructed"
    /\ metro' = source
    /\ start' = source
    /\ new' = Source
    /\ self_number' = self_number + 1
    /\ count' = 0
    /\ hit' = 0
    /\ miss' = 0
    /\ stepX' = StepSize(step)
    /\ stepY' = StepIn(stepX', y_l, y_u)
    /\ stepA' = StepIn(stepX', a_l, a_u)
    /\ stepR' = StepIn(stepX', r_l, r_u)
    /\ bord' = 1
    /\ pc' = "chain"
    /\ UNCHANGED <<source, LC, step>>
    /\ UNCHANGED fitVars
    /\ UNCHANGED <<updated, number>>
    /\ UNCHANGED drawVars
    /\ UNCHANGED clustVars

\* the i-th value numpy.random.uniform(0, 1) returns from now on, i = 0, 1,
\* ..., in 1/UScale
Draw(i) == stream[((rng + i) % Len(stream)) + 1]

\* lines 73-76: c + stepDim * (2. * u - 1.) for the draw u = n / UScale
Move(c, stepDim, n) == c + MulDiv(stepDim, 2 * n - UScale, UScale)

\* BoundsTest without the test of X against its upper bound
BoundsTest_NoUpperX(cand) ==
    IF \/ cand.X < x_l
       \/ cand.Y > y_u \/ cand.Y < y_l
       \/ cand.A > a_u \/ cand.A < a_l
       \/ cand.R > r_u \/ cand.R < r_l
    THEN 1 ELSE 0

\* lines 72, 78-81: bord after the four bound tests
BoundsTest(cand) ==
    IF \/ cand.X > x_u \/ cand.X < x_l
       \/ cand.Y > y_u \/ cand.Y < y_l
       \/ cand.A > a_u \/ cand.A < a_l
       \/ cand.R > r_u \/ cand.R < r_l
    THEN 1 ELSE 0

\* Accepts with >= in place of >
Accepts_OrEqual(logL, constraint) == logL >= constraint

\* line 86: if(new.logL > self.LC)
Accepts(logL, constraint) == logL > constraint

\* AdaptStep without its second branch: the step only ever grows.
AdaptStep_NoShrink(st, h, m) ==
    IF h > m THEN st + InvTab[h] ELSE st

\* lines 92-93: adapt the step to the cumulative hits and misses
AdaptStep(st, h, m) ==
    IF h > m THEN st + InvTab[h]
    ELSE IF h < m THEN st - InvTab[m]
    ELSE st

\* sample(), lines 71-81: one pass of while bord==1.  Four values are drawn,
\* in the order X, Y, A, R; the candidate keeps the logL of the candidate
\* evaluated before it.
Generate ==
    /\ pc = "chain"
    /\ count < NSteps
    /\ bord = 1
    /\ new' = [new EXCEPT !.X = Move(metro.X, stepX, Draw(0)),
                          !.Y = Move(metro.Y, stepY, Draw(1)),
                          !.A = Move(metro.A, stepA, Draw(2)),
                          !.R = Move(metro.R, stepR, Draw(3))]
    /\ bord' = BoundsTest(new')
    /\ rng' = (rng + 4) % Len(stream)
    /\ UNCHANGED <<source, LC, step, self_number, metro, start, count, hit,
                   miss, stepX, stepY, stepA, stepR>>
    /\ UNCHANGED stream
    /\ UNCHANGED fitVars
    /\ UNCHANGED <<updated, number, pc>>
    /\ UNCHANGED clustVars

\* sample(), lines 83-104: the rest of one pass of while(count<20), entered
\* when the generation loop leaves with bord = 0.  The candidate is
\* evaluated (line 83), counted (line 84), accepted or rejected (lines
\* 86-90); the step is adapted (lines 92-93) and the per-dimension steps are
\* derived from it again (lines 95-100).
Evaluate ==
    /\ pc = "chain"
    /\ count < NSteps
    /\ bord = 0
    /\ LET cand  == [new EXCEPT !.logL = log_likelihood(new)]
           acc   == Accepts(cand.logL, LC)
           hit1  == IF acc THEN hit + 1 ELSE hit
           miss1 == IF acc THEN miss ELSE miss + 1
           st    == AdaptStep(step, hit1, miss1)
       IN  /\ new' = cand
           /\ metro' = IF acc THEN cand ELSE metro
           /\ hit' = hit1
           /\ miss' = miss1
           /\ step' = st
           /\ stepX' = StepSize(st)
           /\ stepY' = StepIn(stepX', y_l, y_u)
           /\ stepA' = StepIn(stepX', a_l, a_u)
           /\ stepR' = StepIn(stepX', r_l, r_u)
    /\ self_number' = self_number + 1
    /\ count' = count + 1
    /\ bord' = 1
    /\ UNCHANGED <<source, LC, start, pc>>
    /\ UNCHANGED fitVars
    /\ UNCHANGED <<updated, number>>
    /\ UNCHANGED drawVars
    /\ UNCHANGED clustVars

\* sample() line 106, metropolis_sampling() lines 176-177:
\* return metro, self.number
SampleReturn ==
    /\ pc = "chain"
    /\ ~(count < NSteps)
    /\ updated' = metro
    /\ number' = self_number
    /\ pc' = "returned"
    /\ UNCHANGED metroVars
    /\ UNCHANGED fitVars
    /\ UNCHANGED drawVars
    /\ UNCHANGED clustVars

\* fit(), lines 142-144 and 154: overwrite the worst point, refresh the
\* cache and the call count, shrink the prior mass.  The sampler object,
\* local to metropolis_sampling(), is gone by now.
ReplaceMetropolis ==
    /\ pc = "returned"
    /\ UsesMetropolis(sample)
    /\ active_samples' = ReplaceSlot(active_samples, smallest, updated)
    /\ LogL' = UpdateCache(LogL, smallest, active_samples'[smallest].logL)
    /\ no_likelihood' = number
    /\ log_width' = ShrinkWidth(log_width, no_active_samples)
    /\ pc' = "loop"
    /\ UNCHANGED <<no_active_samples, maximum_iterations, sample,
                   log_evidence, posterior_inferences, Information, iteration,
                   stop, smallest, likelihood_constraint, survivor, updated,
                   number, result>>
    /\ source' = Source
    /\ LC' = None
    /\ step' = None
    /\ self_number' = None
    /\ metro' = Source
    /\ start' = Source
    /\ new' = Source
    /\ count' = 0
    /\ hit' = 0
    /\ miss' = 0
    /\ stepX' = None
    /\ stepY' = None
    /\ stepA' = None
    /\ stepR' = None
    /\ bord' = None
    /\ UNCHANGED drawVars
    /\ UNCHANGED clustVars

-----------------------------------------------------------------------------
(* Clustered_Sampler, known by its call contract only *)

\* the points an attempt of the clustered sampler is followed to: the seed
\* points and a point beyond the box
ClusteredPoints == SeedPoints \cup {Beyond}

\* Clustered_Sampler.sample(): some point, whose logL may or may not exceed
\* the constraint and which may or may not lie in the prior box, and a call
\* count not below the one the sampler was constructed with
ClusteredSample(no) ==
    {<<p, no + k>> : p \in ClusteredPoints, k \in 0..MaxEvaluations}

\* fit() line 148, clustered_sampling() lines 183-185
ClusteredConstruct ==
    /\ pc = "sample"
    /\ sample = "clustered_ellipsoidal"
    /\ Clust_no' = no_likelihood
    /\ attempts' = 0
    /\ pc' = "clust"
    /\ UNCHANGED fitVars
    /\ UNCHANGED <<updated, number>>
    /\ UNCHANGED metroVars
    /\ UNCHANGED drawVars

\* RetryCount with the count clustered_sampling() was called with: the
\* evaluations of the failed attempts are dropped.
RetryCount_Initial(initial, returned) == initial

\* line 191: the sampler of a retry is constructed with no=number, the count
\* the attempt before it returned (initial is likelihood_calc, line 183).
RetryCount(initial, returned) == returned

\* clustered_sampling(), lines 186-192: one pass of the retry loop
ClusteredAttempt ==
    /\ pc = "clust"
    /\ \E out \in ClusteredSample(Clust_no) :
          /\ updated' = out[1]
          /\ number' = out[2]
          /\ IF out[1].logL > likelihood_constraint
             THEN /\ pc' = "clust_returned"
                  /\ Clust_no' = Clust_no
             ELSE /\ attempts < MaxAttempts
                  /\ pc' = "clust"
                  /\ Clust_no' = RetryCount(no_likelihood, out[2])
    /\ attempts' = attempts + 1
    /\ UNCHANGED fitVars
    /\ UNCHANGED metroVars
    /\ UNCHANGED drawVars

\* fit(), lines 149-151 and 154
ReplaceClustered ==
    /\ pc = "clust_returned"
    /\ active_samples' = ReplaceSlot(active_samples, smallest, updated)
    /\ LogL' = UpdateCache(LogL, smallest, active_samples'[smallest].logL)
    /\ no_likelihood' = number
    /\ log_width' = ShrinkWidth(log_width, no_active_samples)
    /\ pc' = "loop"
    /\ UNCHANGED <<no_active_samples, maximum_iterations, sample,
                   log_evidence, posterior_inferences, Information, iteration,
                   stop, smallest, likelihood_constraint, survivor, updated,
                   number, result>>
    /\ UNCHANGED metroVars
    /\ UNCHANGED drawVars
    /\ UNCHANGED clustVars

\* fit(), lines 139, 146 and 154: neither strategy string matches
SkipSampling ==
    /\ pc = "sample"
    /\ ~UsesMetropolis(sample)
    /\ sample # "clustered_ellipsoidal"
    /\ log_width' = ShrinkWidth(log_width, no_active_samples)
    /\ pc' = "loop"
    /\ UNCHANGED <<no_active_samples, maximum_iterations, sample,
                   active_samples, log_evidence, posterior_inferences,
                   Information, no_likelihood, LogL, iteration, stop,
                   smallest, likelihood_constraint, survivor, updated, number,
                   result>>
    /\ UNCHANGED metroVars
    /\ UNCHANGED drawVars
    /\ UNCHANGED clustVars

\* fit(), lines 162-168: the loop is over, return the result
Return ==
    /\ pc = "loop"
    /\ ~LoopContinues(iteration, maximum_iterations)
    /\ result' = [returned |-> TRUE,
                  src |-> active_samples,
                  samples |-> posterior_inferences,
                  logZ |-> log_evidence,
                  Information |-> Information,
                  likelihood_calculations |-> no_likelihood,
                  iterations |-> maximum_iterations]
    /\ pc' = "done"
    /\ UNCHANGED <<no_active_samples, maximum_iterations, sample,
                   active_samples, log_evidence, posterior_inferences,
                   log_width, Information, no_likelihood, LogL, iteration,
                   stop, smallest, likelihood_constraint, survivor, updated,
                   number>>
    /\ UNCHANGED metroVars
    /\ UNCHANGED drawVars
    /\ UNCHANGED clustVars

Next ==
    \/ FitBegin
    \/ Discard
    \/ PickSurvivor
    \/ MetropolisConstruct
    \/ SampleBegin
    \/ Generate
    \/ Evaluate
    \/ SampleReturn
    \/ ReplaceMetropolis
    \/ ClusteredConstruct
    \/ ClusteredAttempt
    \/ ReplaceClustered
    \/ SkipSampling
    \/ Return

Spec == Init /\ [][Next]_vars

-----------------------------------------------------------------------------
(* Metropolis_sampler.sample() on its own: any seed, constraint and count *)

\* Metropolis_sampler(to_evolve, likelihood_constraint, no), lines 200-205,
\* for a seed at, above or below the constraint: a seed point under the
\* likelihood of a seed point, with any stream of draws.  The caller's
\* variables hold a one-point ensemble that sample() never reads.
InitSample ==
    /\ source \in SeedPoints
    /\ LC \in {p.logL : p \in SeedPoints}
    /\ stream \in Streams
    /\ rng = 0
    /\ self_number = 0
    /\ step = InitialStep
    /\ pc = "constructed"
    /\ no_active_samples = 1
    /\ maximum_iterations = 1
    /\ sample = "metropolis"
    /\ active_samples = [i \in {0} |-> source]
    /\ log_evidence = None
    /\ posterior_inferences = <<>>
    /\ log_width = None
    /\ Information = None
    /\ no_likelihood = self_number
    /\ LogL = <<>>
    /\ iteration = None
    /\ stop = None
    /\ smallest = None
    /\ likelihood_constraint = LC
    /\ survivor = None
    /\ updated = Source
    /\ number = None
    /\ result = [returned |-> FALSE]
    /\ metro = Source
    /\ start = Source
    /\ new = Source
    /\ count = 0
    /\ hit = 0
    /\ miss = 0
    /\ stepX = None
    /\ stepY = None
    /\ stepA = None
    /\ stepR = None
    /\ bord = None
    /\ Clust_no = None
    /\ attempts = 0

NextSample ==
    \/ SampleBegin
    \/ Generate
    \/ Evaluate
    \/ SampleReturn

SpecSample == InitSample /\ [][NextSample]_vars

-----------------------------------------------------------------------------
(* Properties *)

Last(seq) == seq[Len(seq)]

\* the prior-mass width in force at the j-th iteration, j = 1, 2, ...
WidthAt(j) ==
    InitialWidth(no_active_samples) - (j - 1) * (LScale \div no_active_samples)

\* the main-loop iterations completed so far
Completed == IF pc \in {"fit", "loop", "done"} THEN iteration ELSE iteration - 1

\* between the discard of the worst point and its replacement
Replacing ==
    pc \in {"survivor", "sample", "constructed", "chain", "returned",
            "clust", "clust_returned"}

RECURSIVE LogSumExp(_)
\* log(sum(exp(w))) over the logWt of a trace, accumulated from the sentinel
LogSumExp(trace) ==
    IF trace = <<>> THEN Sentinel
    ELSE logaddexp(LogSumExp(SubSeq(trace, 1, Len(trace) - 1)), Last(trace).logWt)

\* C1: when fit() returns, the loop has run exactly max_iter times: the
\* posterior trace has max_iter entries and the reported 'iterations' is the
\* number of iterations executed.
C1_RunsMaxIterIterations ==
    pc = "done" =>
        /\ iteration = maximum_iterations
        /\ Len(posterior_inferences) = maximum_iterations
        /\ result.iterations = Len(posterior_inferences)

\* C2: under either strategy the point written into the worst slot has logL
\* strictly above that iteration's likelihood constraint.
C2_ReplacementAboveConstraint ==
    (pc = "loop" /\ iteration >= 1
        /\ sample \in {"metropolis", "clustered_ellipsoidal"}) =>
        active_samples[smallest].logL > likelihood_constraint

\* C3 as claimed: the point sample() returns never has logL below the
\* seed's logL.
C3_NeverBelowSeed ==
    pc = "returned" => updated.logL >= source.logL

\* C3 as amended: the point sample() returns is the seed itself or a
\* candidate with logL above the constraint; it has logL at least the
\* seed's logL when the seed's logL is not above the constraint, and logL
\* above the constraint when the seed's logL is above it.
C3_SeedOrAboveConstraint ==
    pc = "returned" =>
        /\ updated = source \/ updated.logL > LC
        /\ source.logL <= LC => updated.logL >= source.logL
        /\ source.logL > LC => updated.logL > LC

\* C3 witness: a full call from a seed not above the constraint that
\* returns a point the chain accepted
C3_Witness ==
    /\ pc = "returned"
    /\ count = NSteps
    /\ source.logL <= LC
    /\ hit > 0
    /\ miss > 0
    /\ updated.logL > source.logL

\* C4: sample() returns the count it was given plus the 20 evaluations it
\* made, so that after k Metropolis iterations the call count is N + 20 k.
C4_CountsEvaluations ==
    /\ pc = "returned" => number = no_likelihood + count
    /\ (pc = "loop" /\ sample = "metropolis") =>
          no_likelihood = no_active_samples + NSteps * iteration

\* C5: the trace has one entry per iteration; each entry's logWt is the
\* width in force at its iteration plus its logL; and the entry's logL is the
\* least logL of the ensemble at that iteration.
C5_TraceWeights ==
    /\ Len(posterior_inferences) = iteration
    /\ \A j \in 1..Len(posterior_inferences) :
          posterior_inferences[j].logWt = WidthAt(j) + posterior_inferences[j].logL
    /\ Replacing =>
          /\ active_samples[smallest].logL = Last(posterior_inferences).logL
          /\ \A i \in DOMAIN active_samples :
                active_samples[i].logL >= Last(posterior_inferences).logL

\* C5 witness: two iterations done, two entries in the trace
C5_Witness ==
    /\ pc = "loop"
    /\ iteration = 2
    /\ Len(posterior_inferences) = 2

\* C6: after k completed iterations log_width is log(1 - exp(-1/N)) - k/N;
\* within an iteration it still has the value the weight was assigned with.
C6_WidthFormula ==
    pc # "fit" =>
        log_width = InitialWidth(no_active_samples)
                      - Completed * (LScale \div no_active_samples)

\* C6 witness: the width after two iterations of a two-point ensemble
C6_Witness ==
    /\ pc = "loop"
    /\ iteration = 2
    /\ no_active_samples = 2
    /\ log_width = InitialWidth(2) - LScale

\* every Source of the ensemble and of the trace lies inside the prior box
HeldInBounds ==
    /\ \A i \in DOMAIN active_samples : InBounds(active_samples[i])
    /\ \A j \in 1..Len(posterior_inferences) : InBounds(posterior_inferences[j])

\* C7 as claimed: under every strategy every Source of the ensemble and of
\* the trace lies inside the prior box, and so do the candidate sample()
\* evaluates, its running chain state and the point it returns.
C7_InBounds ==
    /\ HeldInBounds
    /\ (pc = "chain" /\ bord = 0) => InBounds(new)
    /\ pc \in {"chain", "returned"} => InBounds(metro)
    /\ pc = "returned" => InBounds(updated)

\* C7 as amended: sample() evaluates a candidate (and counts the
\* evaluation) only when all four coordinates are inside their bounds, a
\* candidate outside them leaves the count, the chain state and the step
\* count alone and is drawn again, and the chain state and the returned
\* point are inside the box; so under every strategy string but
\* "clustered_ellipsoidal" every Source of the ensemble and of the trace is
\* inside the box.  Under "clustered_ellipsoidal" a step of fit() keeps them
\* inside the box when the point clustered_sampling() returned is inside it.
C7_InBoundsUnlessClustered ==
    /\ [](/\ sample # "clustered_ellipsoidal" => HeldInBounds
          /\ (pc = "chain" /\ bord = 0) => InBounds(new)
          /\ pc \in {"chain", "returned"} => InBounds(metro)
          /\ pc = "returned" => InBounds(updated))
    /\ [][/\ (pc = "chain" /\ self_number' # self_number) =>
                /\ InBounds(new)
                /\ new' = [new EXCEPT !.logL = log_likelihood(new)]
          /\ (pc = "chain" /\ ~InBounds(new')) =>
                /\ self_number' = self_number
                /\ metro' = metro
                /\ count' = count
                /\ bord' = 1
          /\ (/\ sample = "clustered_ellipsoidal"
              /\ HeldInBounds
              /\ pc = "clust_returned" => InBounds(updated)) =>
                HeldInBounds']_vars

\* C7 witness: after an accepted candidate, a candidate beyond the upper
\* bound of X has been drawn; it is not evaluated (its logL is the accepted
\* candidate's) and the chain state is inside the box
C7_Witness ==
    /\ pc = "chain"
    /\ sample = "metropolis"
    /\ bord = 1
    /\ new.X > x_u
    /\ hit > 0
    /\ metro # start
    /\ new.logL = metro.logL
    /\ InBounds(metro)

\* C8: log_evidence is the log-sum-exp of the logWt of the trace entries
\* (the first entry's logWt after one iteration), and it never decreases.
C8_EvidenceIsLogSumExp ==
    /\ [](pc # "fit" =>
            /\ log_evidence = LogSumExp(posterior_inferences)
            /\ Len(posterior_inferences) = 1 =>
                  log_evidence = posterior_inferences[1].logWt)
    /\ [][pc # "fit" => log_evidence' >= log_evidence]_vars

\* C8 witness: two weights accumulated, the evidence above both
C8_Witness ==
    /\ Len(posterior_inferences) = 2
    /\ log_evidence > posterior_inferences[1].logWt
    /\ log_evidence > posterior_inferences[2].logWt

\* C9: at the head of the loop the ensemble has N members, the logL cache
\* agrees with them, no member is below the previous constraint; and the
\* constraints recorded in the trace never decrease.
C9_EnsembleInvariant ==
    /\ pc = "loop" =>
          /\ DOMAIN active_samples = 0..(no_active_samples - 1)
          /\ LogL = [i \in DOMAIN active_samples |-> active_samples[i].logL]
          /\ iteration >= 1 =>
                \A i \in DOMAIN active_samples :
                    active_samples[i].logL >= likelihood_constraint
    /\ \A j \in 1..(Len(posterior_inferences) - 1) :
          posterior_inferences[j].logL <= posterior_inferences[j + 1].logL

\* C9 witness: the constraint rose from the first iteration to the second,
\* and the second replacement is a candidate of the chain that is neither a
\* seed point nor as likely as the peak
C9_Witness ==
    /\ Len(posterior_inferences) = 2
    /\ posterior_inferences[1].logL < posterior_inferences[2].logL
    /\ pc = "loop"
    /\ sample = "metropolis"
    /\ active_samples[smallest] \notin SeedPoints
    /\ active_samples[smallest].logL < Peak.logL
    /\ active_samples[smallest].logL > likelihood_constraint

\* C10: a step of the loop changes no ensemble member but the worst one,
\* and no entry of the trace once appended.
C10_OnlyWorstSlotChanges ==
    [][pc # "fit" =>
         /\ \A i \in DOMAIN active_samples :
               i # smallest' => active_samples'[i] = active_samples[i]
         /\ Len(posterior_inferences') >= Len(posterior_inferences)
         /\ \A j \in 1..Len(posterior_inferences) :
               posterior_inferences'[j] = posterior_inferences[j]]_vars

\* C10 witness: the worst slot was overwritten, its copy in the trace and
\* the seed were not
C10_Witness ==
    /\ pc = "loop"
    /\ iteration >= 1
    /\ no_active_samples >= 2
    /\ active_samples[smallest] # Last(posterior_inferences)
    /\ active_samples[smallest].logL > Last(posterior_inferences).logL
    /\ iteration = 1
    /\ survivor # smallest
    /\ active_samples[survivor] \in SeedPoints

\* The positions of fit() at which the survivor index has been handed to a
\* sampler (or to the dispatch that selects one).
Handed == {"sample", "constructed", "chain", "returned", "clust",
           "clust_returned"}

\* C11: the survivor index handed to the sampler is an ensemble index in
\* [0, N) other than the worst index, and for every N >= 1 the rejection
\* loop of lines 134-137 terminates under fair draws: whenever fit() stands
\* in that loop, some draw of int(N * uniform) % N leaves it.  (A loop whose
\* every draw repeats it cannot end under any fairness of the draws.)
C11_SurvivorValidAndLoopExits ==
    /\ pc \in Handed =>
          /\ survivor \in 0..(no_active_samples - 1)
          /\ survivor # smallest
    /\ pc = "survivor" =>
          \E u \in 0..(no_active_samples - 1) : u # smallest

\* One pass of while(count<20) has run to its end.
ChainStep == pc = "chain" /\ count' = count + 1

\* C12: in each of the 20 steps the candidate is evaluated and the chain
\* state is replaced by it if and only if its logL is strictly above LC,
\* and is otherwise left as it was; each step increments exactly one of hit
\* and miss, so hit + miss is the number of completed steps, and is 20 on
\* return.
C12_AcceptIffAboveConstraint ==
    /\ [](/\ pc \in {"chain", "returned"} => hit + miss = count
          /\ pc = "returned" => hit + miss = NSteps)
    /\ [][ChainStep =>
             /\ new' = [new EXCEPT !.logL = log_likelihood(new)]
             /\ new'.logL > LC =>
                   /\ metro' = new'
                   /\ hit' = hit + 1
                   /\ miss' = miss
             /\ new'.logL <= LC =>
                   /\ metro' = metro
                   /\ miss' = miss + 1
                   /\ hit' = hit]_vars

\* C12 witness: after steps of both kinds, the candidate just evaluated has
\* logL equal to LC and was rejected: the chain state is another point,
\* above LC
C12_Witness ==
    /\ pc = "chain"
    /\ count > 0
    /\ bord = 1
    /\ InBounds(new)
    /\ new.logL = log_likelihood(new)
    /\ new.logL = LC
    /\ hit > 0
    /\ miss > 0
    /\ metro.logL > LC
    /\ metro # new

\* The logarithm of the smallest step size twenty steps can leave:
\* 8 * exp(-(1 + 2 * (1/2 + ... + 1/10) + 1/11)), a positive number.
StepFloor == InitialStep - LogStepSpan

\* The per-dimension steps are those derived from the step size whose
\* logarithm is st.
StepsDerivedFrom(st, sx, sy, sa, sr) ==
    /\ sx = StepSize(st)
    /\ sy = StepIn(sx, y_l, y_u)
    /\ sa = StepIn(sx, a_l, a_u)
    /\ sr = StepIn(sx, r_l, r_u)

\* C13: every sample() call starts at step size 8.0; after each step the
\* step size is multiplied by exp(1/hits) when hits > misses, divided by
\* exp(1/misses) when misses > hits and left alone when they are equal, so
\* it strictly grows exactly when hits exceed misses and strictly shrinks
\* exactly when misses exceed hits; it stays strictly positive (its
\* logarithm stays within LogStepSpan of that of 8.0), the per-dimension
\* steps are derived from the new size at the end of every step, and the
\* next candidate is drawn within them.
C13_StepAdaptation ==
    /\ [](/\ (pc = "chain" /\ count = 0) =>
                /\ step = InitialStep
                /\ stepX = 8 * PosScale
          /\ pc \in {"chain", "returned"} =>
                /\ step >= StepFloor
                /\ step <= InitialStep + LogStepSpan
                /\ stepX > 0 /\ stepY > 0 /\ stepA > 0 /\ stepR > 0
                /\ StepsDerivedFrom(step, stepX, stepY, stepA, stepR))
    /\ [][ChainStep =>
             /\ hit' > miss' <=> step' > step
             /\ miss' > hit' <=> step' < step
             /\ hit' > miss' <=> stepX' > stepX
             /\ miss' > hit' <=> stepX' < stepX
             /\ hit' > miss' => step' = step + InvTab[hit']
             /\ miss' > hit' => step' = step - InvTab[miss']
             /\ hit' = miss' => step' = step /\ stepX' = stepX
             /\ StepsDerivedFrom(step', stepX', stepY', stepA', stepR')]_vars
    /\ [][(pc = "chain" /\ count' = count /\ new' # new) =>
             /\ Dist(new'.X, metro.X) <= stepX
             /\ Dist(new'.Y, metro.Y) <= stepY
             /\ Dist(new'.A, metro.A) <= stepA
             /\ Dist(new'.R, metro.R) <= stepR]_vars

\* C13 witness: the step size grew above 8.0 while hits led, the step just
\* taken shrank it because misses now lead, and the next candidate has been
\* drawn further from the chain state in X than 8.0 / 2
C13_Witness ==
    /\ pc = "chain"
    /\ count > 0
    /\ miss > hit
    /\ step > InitialStep
    /\ stepX > 8 * PosScale
    /\ bord = 0
    /\ Dist(new.X, metro.X) > 4 * PosScale

\* C14: clustered_sampling() returns only a point with logL strictly above
\* LC; until an attempt yields one it re-invokes the clustered sampler, the
\* first attempt constructed with the count clustered_sampling() was called
\* with and each retry with the call count the attempt before it returned,
\* so the count never falls back; it never leaves its loop after an attempt
\* at or below LC.
C14_ClusteredRetries ==
    /\ [](/\ pc = "clust_returned" =>
                /\ updated.logL > likelihood_constraint
                /\ number >= Clust_no
                /\ Clust_no >= no_likelihood
          /\ (pc = "clust" /\ attempts = 0) => Clust_no = no_likelihood
          /\ (pc = "clust" /\ attempts > 0) =>
                /\ updated.logL <= likelihood_constraint
                /\ Clust_no = number)
    /\ [][/\ (pc = "clust" /\ updated'.logL <= likelihood_constraint) =>
                pc' = "clust"
          /\ (pc = "clust" /\ attempts' # attempts) =>
                number' \in {o[2] : o \in ClusteredSample(Clust_no)}]_vars

\* C14 witness: clustered_sampling() returned after at least one attempt
\* was turned down, with a count above the one it was called with
C14_Witness ==
    /\ pc = "clust_returned"
    /\ attempts >= 2
    /\ updated.logL > likelihood_constraint
    /\ Clust_no > no_likelihood
    /\ number > Clust_no

\* The strategy string selects neither branch of lines 139 and 146.
Unknown == sample \notin {"metropolis", "clustered_ellipsoidal"}

\* A point without its weight.
Unweighted(p) == [p EXCEPT !.logWt = None]

\* C15: under a strategy string that is neither "metropolis" nor
\* "clustered_ellipsoidal" fit() calls no sampler and replaces nothing: the
\* call count stays the one set at construction, no member of the ensemble
\* moves (only the weight of the worst member is assigned, line 102), the
\* same worst index is chosen in every iteration, and the trace holds copies
\* of that one point that differ in logWt and in nothing else.
C15_UnknownStrategyReplacesNothing ==
    /\ [](Unknown =>
            /\ pc \in {"fit", "loop", "survivor", "sample", "done"}
            /\ no_likelihood = no_active_samples
            /\ \A j, k \in 1..Len(posterior_inferences) :
                  /\ Unweighted(posterior_inferences[j])
                        = Unweighted(posterior_inferences[k])
                  /\ j # k => posterior_inferences[j].logWt
                                 # posterior_inferences[k].logWt
            /\ pc = "done" =>
                  /\ result.likelihood_calculations = no_active_samples
                  /\ \A i \in 0..(no_active_samples - 1) :
                        \A j \in 1..Len(result.samples) :
                           result.src[i].logL >= result.samples[j].logL)
    /\ [][Unknown =>
            /\ no_likelihood' = no_likelihood
            /\ \A i \in 0..(no_active_samples - 1) :
                  /\ Unweighted(active_samples'[i])
                        = Unweighted(active_samples[i])
                  /\ i # smallest' => active_samples'[i] = active_samples[i]
            /\ iteration >= 1 => smallest' = smallest]_vars

\* C15 witness: fit() returned under an unknown strategy string after
\* discarding the same point of a two-point ensemble twice
C15_Witness ==
    /\ Unknown
    /\ pc = "done"
    /\ no_active_samples >= 2
    /\ Len(posterior_inferences) >= 2
    /\ active_samples[0].logL # active_samples[1].logL

====
